---- MODULE Spec2Model ----
(***************************************************************************)
(* Model of the tooltip plugin of yagr (YagrTooltipPlugin,                 *)
(* src/unnamed/part_000 lines 141-581): the Tooltip State, the overlay     *)
(* element, the listeners on the interaction layer (`over`) and on the     *)
(* document, the deferred render closure and the state-change              *)
(* notifications.  Every handler runs to completion (single-threaded       *)
(* event loop), so every handler is one action.                            *)
(***************************************************************************)
EXTENDS Integers, Sequences, FiniteSets, TLC

VARIABLES
    opts,                \* the merged options (fixed at construction)
    pinned,              \* state.pinned
    visible,             \* state.visible
    mounted,             \* state.mounted
    clickStartedX,       \* state.clickStartedX (NullV or Num(clientX))
    display,             \* tOverlay.style.display
    attached,            \* tOverlay is a child of document.body
    pinnedClass,         \* tOverlay carries the class yagr-tooltip_pinned
    innerHTML,           \* tOverlay.innerHTML: what the last render drew
    over,                \* the interaction layer has been looked up (init hook)
    overListeners,       \* event types with a listener of this plugin on `over`
    docListeners,        \* event types with a listener of this plugin on document
    holders,             \* the number of .yagr-points-holder children of `over`
    renderTooltipCloses, \* the deferred render closure (NoRender = () => {})
    focus,               \* last argument handed to yagr.focus by checkFocus
    emitted,             \* notifications emitted by the last handler, in order
    thrown,              \* the error the last handler threw ("none" if it returned)
    last,                \* the last handler run and its input
    pre,                 \* state.pinned and state.visible right before that handler
    stale,               \* the deferred closure holds rows built for another data
                         \* index than that of the latest cursor update that
                         \* passed the missing-data guard
    arg                  \* the chart and cursor of the last cursor update, or the
                         \* input and result of the last value resolution, where
                         \* a specification records them (NoArg otherwise)

vars == <<opts, pinned, visible, mounted, clickStartedX, display, attached,
          pinnedClass, innerHTML, over, overListeners, docListeners, holders,
          renderTooltipCloses, focus, emitted, thrown, last, pre, stale, arg>>

-----------------------------------------------------------------------------
(* Bounds of the model *)

\* clientX values of pointer events are 0 .. MaxX
MaxX == 1
\* at most MaxHolders holder layers are ever stacked by repeated pin(true)
MaxHolders == 2
\* every data array of the chart has DataLen entries
DataLen == 2
\* the arrays the value resolver is checked on have SnapLen entries
SnapLen == 4

-----------------------------------------------------------------------------
(* Values *)

NullV == [t |-> "null", v |-> 0]
Undefined == [t |-> "undefined", v |-> 0]
Num(n) == [t |-> "num", v |-> n]
Str(k) == [t |-> "str", v |-> k]

NoRender == [kind |-> "noop"]
EmptyHTML == [kind |-> "empty"]
NoArg == [kind |-> "none"]

-----------------------------------------------------------------------------
(* The mutable world of one plugin instance as a record, so that the       *)
(* functions of the plugin compose the way the code calls them.            *)

Cur ==
    [pinned |-> pinned, visible |-> visible, mounted |-> mounted,
     clickStartedX |-> clickStartedX, display |-> display, attached |-> attached,
     pinnedClass |-> pinnedClass, innerHTML |-> innerHTML, over |-> over,
     overListeners |-> overListeners, docListeners |-> docListeners,
     holders |-> holders, renderTooltipCloses |-> renderTooltipCloses,
     focus |-> focus, emitted |-> <<>>, thrown |-> "none"]

Snapshot == [pinned |-> pinned, visible |-> visible]

CommitArg(s, op, a) ==
    /\ pinned' = s.pinned
    /\ visible' = s.visible
    /\ mounted' = s.mounted
    /\ clickStartedX' = s.clickStartedX
    /\ display' = s.display
    /\ attached' = s.attached
    /\ pinnedClass' = s.pinnedClass
    /\ innerHTML' = s.innerHTML
    /\ over' = s.over
    /\ overListeners' = s.overListeners
    /\ docListeners' = s.docListeners
    /\ holders' = s.holders
    /\ renderTooltipCloses' = s.renderTooltipCloses
    /\ focus' = s.focus
    /\ emitted' = s.emitted
    /\ thrown' = s.thrown
    /\ last' = op
    /\ pre' = Snapshot
    /\ arg' = a
    /\ UNCHANGED opts

\* a handler other than a cursor update
Commit(s, op) == CommitArg(s, op, arg) /\ UNCHANGED stale

-----------------------------------------------------------------------------
(* emit, show, hide, pin *)

\* lines 269-280: the notification carries the state object as it is now
Notification(s, action) ==
    [action |-> action, pinned |-> s.pinned, visible |-> s.visible,
     mounted |-> s.mounted]

\* The callback receives show, hide and pin with every notification and
\* may call them before it returns, so the four functions call each other.
RECURSIVE emit(_, _), show(_), hide(_), pin(_, _)

\* what the callback given as opts.onStateChange does when it is notified:
\* nothing ("observe"), show() on 'mount', or pin(false) on 'pin'
Callback(s, action) ==
    IF opts.callback = "showOnMount" /\ action = "mount" THEN show(s)
    ELSE IF opts.callback = "unpinOnPin" /\ action = "pin" THEN pin(s, FALSE)
    ELSE s

emit(s, action) ==
    IF opts.onStateChange
    THEN Callback([s EXCEPT !.emitted = Append(@, Notification(s, action))],
                  action)
    ELSE s

\* show with the guard on the notification lost
show_AlwaysEmit(s) ==
    emit([s EXCEPT !.visible = TRUE, !.display = "block"], "show")

\* lines 287-292
show(s) ==
    LET shouldEmit == ~s.visible
        s1 == [s EXCEPT !.visible = TRUE, !.display = "block"]
    IN  IF shouldEmit THEN emit(s1, "show") ELSE s1

\* hide that leaves the overlay's display as it is
hide_KeepDisplay(s) ==
    LET shouldEmit == s.visible
        s1 == [s EXCEPT !.visible = FALSE]
        s2 == emit(s1, "hide")
    IN  IF shouldEmit THEN emit(s2, "show") ELSE s2

\* lines 294-299
hide(s) ==
    LET shouldEmit == s.visible
        s1 == [s EXCEPT !.visible = FALSE, !.display = "none"]
        s2 == emit(s1, "hide")
    IN  IF shouldEmit THEN emit(s2, "show") ELSE s2

\* lines 334-366.  pin(true) appends a new holder layer holding clones of
\* the marker elements; pin(false) removes the first holder layer if there
\* is one.  The clones themselves and the height of the ._tooltip-list
\* element (lines 335, 340-342) are not part of the modelled state.
\* Before the init hook `over` is undefined: pin(true) throws at line 346,
\* after it has set state.pinned and the class, and pin(false) at line 356,
\* after it has set state.pinned; neither reaches emit.
pin(s, pinState) ==
    LET s1 == [s EXCEPT !.pinned = pinState]
        s2 == IF pinState
              THEN [s1 EXCEPT
                      !.pinnedClass = TRUE,
                      !.holders = @ + 1,
                      !.docListeners =
                          IF opts.renderIsDefault
                          THEN @ \cup {"mousemove", "mousedown"} ELSE @]
              ELSE [s1 EXCEPT
                      !.holders = IF @ = 0 THEN 0 ELSE @ - 1,
                      !.pinnedClass = FALSE,
                      !.docListeners =
                          IF opts.renderIsDefault
                          THEN @ \ {"mousemove", "mousedown"} ELSE @]
    IN  IF ~s.over
        THEN [s1 EXCEPT !.pinnedClass = IF pinState THEN TRUE ELSE @,
                        !.thrown = "TypeError"]
        ELSE emit(s2, IF pinState THEN "pin" ELSE "unpin")

\* lines 543-557: running the deferred closure
RunRender(s) ==
    IF s.renderTooltipCloses = NoRender
    THEN s
    ELSE emit([s EXCEPT !.innerHTML =
                   [kind |-> "rendered",
                    rows |-> s.renderTooltipCloses.rows,
                    lines |-> s.renderTooltipCloses.lines,
                    x |-> s.renderTooltipCloses.x,
                    pinned |-> s.pinned,
                    sum |-> s.renderTooltipCloses.sum]],
              "render")

\* lines 316-318
onMouseDown(s, clientX) == [s EXCEPT !.clickStartedX = Num(clientX)]

\* JavaScript truthiness of a number-or-null: null and 0 are both falsy
Truthy(x) == x.t = "num" /\ x.v # 0

\* onMouseUp without the flush of the deferred render
onMouseUp_NoFlush(s, clientX) ==
    IF opts.pinable /\ Truthy(s.clickStartedX)
          /\ s.clickStartedX = Num(clientX)
    THEN show(pin(s, ~s.pinned))
    ELSE s

\* lines 368-378
onMouseUp(s, clientX) ==
    IF opts.pinable /\ Truthy(s.clickStartedX)
          /\ s.clickStartedX = Num(clientX)
    THEN RunRender(show(pin(s, ~s.pinned)))
    ELSE s

\* lines 380-382
onMouseEnter(s) == show(s)

\* onMouseLeave that never hides
onMouseLeave_NeverHide(s) == s

\* onMouseLeave without the guard on state.pinned
onMouseLeave_AlwaysHide(s) == hide(s)

\* lines 384-388
onMouseLeave(s) == IF ~s.pinned THEN hide(s) ELSE s

\* lines 320-332; target is where the mousedown landed
detectClickOutside(s, target) ==
    IF target = "nonElement"
    THEN s
    ELSE LET isClickInsideTooltip == target \in {"tooltip", "item"}
             isClickOnUplotOver == target = "over"
         IN  IF ~isClickInsideTooltip /\ ~isClickOnUplotOver
             THEN hide(pin(s, FALSE))
             ELSE s

\* lines 301-314: a row element of the overlay (its k-th item) focuses the
\* series it names, anything else clears the focus
checkFocus(s, target, k) ==
    [s EXCEPT !.focus =
        IF target = "item" /\ s.innerHTML.kind = "rendered"
              /\ k \in 1..Len(s.innerHTML.rows)
        THEN s.innerHTML.rows[k].name
        ELSE "none"]

\* lines 565-576
destroy(s) ==
    emit([s EXCEPT
            !.overListeners =
                @ \ {"mousedown", "mouseup", "mouseenter", "mouseleave"},
            !.attached = FALSE,
            !.mounted = FALSE],
         "destroy")

\* setData without the check of the payload
setData_NoCheck(s, data) == s

\* lines 401-405: data is the payload u.data, one entry per series
setData(s, data) ==
    IF \A i \in 1..Len(data) : data[i].t = "array"
    THEN s
    ELSE [s EXCEPT !.thrown = "Error"]

\* lines 393-400
init(s) ==
    [s EXCEPT
        !.over = TRUE,
        !.overListeners =
            @ \cup {"mousedown", "mouseup", "mouseenter", "mouseleave"}]

-----------------------------------------------------------------------------
(* The chart as the engine hands it to the hooks: u.series and u.data.     *)
(* Arrays are 0-based in the code; At reads a sequence at a 0-based index. *)

At(arr, i) == arr[i + 1]

\* ySettings.interpolationValue, the gap-marker (line 459)
stripValue == NullV

\* findDataIdx that looks for a value only to the left of idx
findDataIdx_LeftOnly(source, serie, idx, snapTo, skipValue) ==
    LET left == {j \in 0..(idx - 1) : At(source, j) # skipValue}
    IN  IF snapTo = "false" \/ left = {}
        THEN idx
        ELSE CHOOSE j \in left : \A k \in left : j >= k

\* findDataIdx of utils/common (imported at line 149, called at line 198
\* with the array, the series, the index, the policy and the gap-marker):
\* the index nearest to idx whose value is not the gap-marker, searching
\* both directions over the array; the lower index wins a tie; idx itself
\* when snapping is off or nothing is found.  The search reads the array
\* alone: the section of the specification on the value resolver gives the
\* series no part in it.
findDataIdx(source, serie, idx, snapTo, skipValue) ==
    LET good == {j \in 0..(Len(source) - 1) : At(source, j) # skipValue}
        Dist(j) == IF j >= idx THEN j - idx ELSE idx - j
        best == {j \in good : \A k \in good : Dist(j) <= Dist(k)}
    IN  IF snapTo = "false" \/ good = {}
        THEN idx
        ELSE CHOOSE j \in best : \A k \in best : j <= k

\* lines 188-203
findValue(cursor, data, serie, idx, skipValue) ==
    LET source == IF serie.c # <<>> THEN serie.c ELSE data
        snapTo == IF cursor.snapToValues = "false" THEN "false"
                  ELSE IF cursor.snapToValues = "undefined" THEN "closest"
                  ELSE cursor.snapToValues
        value == At(source, idx)
    IN  IF value = skipValue
        THEN At(source, findDataIdx(source, serie, idx, snapTo, skipValue))
        ELSE value

\* lines 215-234, the default opts.value: '-' for null, a string as it is,
\* a number in fixed notation with 2 digits
defaultTooltipValueFormatter(n) ==
    IF n.t = "null" THEN [fmt |-> "dash", v |-> 0]
    ELSE IF n.t = "str" THEN [fmt |-> "label", v |-> n.v]
    ELSE [fmt |-> "fixed2", v |-> n.v]

\* findSticky of utils/common (imported at line 149): the 0-based index of
\* the numeric entry closest to y, the lowest index on a tie, NullV if none
findSticky(ys, y) ==
    LET good == {j \in 0..(Len(ys) - 1) : At(ys, j).t = "num"}
        Dist(j) == IF At(ys, j).v >= y THEN At(ys, j).v - y ELSE y - At(ys, j).v
        best == {j \in good : \A k \in good : Dist(j) <= Dist(k)}
    IN  IF good = {} THEN NullV
        ELSE Num(CHOOSE j \in best : \A k \in best : j <= k)

\* lines 445-500: the loop over the series after the first; acc carries
\* rows, rowYs and sum; i is the 0-based series index
RECURSIVE RowLoop(_, _, _, _)
RowLoop(u, idx, i, acc) ==
    IF i >= Len(u.series) THEN acc
    ELSE
      LET serie == At(u.series, i) IN
      IF ~serie.show THEN RowLoop(u, idx, i + 1, acc)
      ELSE
        LET found == findValue(opts.cursor, At(u.data, i), serie, idx, stripValue)
            value == IF found.t = "str" THEN NullV ELSE found
            dValue == found
            sum == IF opts.total
                   THEN acc.sum + (IF value.t = "num" THEN value.v ELSE 0)
                   ELSE acc.sum
            realY == At(At(u.data, i), idx)
            yValue == IF serie.c # <<>> /\ At(serie.c, idx) = stripValue
                      THEN value ELSE realY
            skip == (value = NullV /\ opts.hideNoData) \/ ~serie.showInTooltip
            rowData == [name |-> serie.name,
                        originalValue |-> value,
                        value |-> defaultTooltipValueFormatter(dValue),
                        y |-> yValue,
                        active |-> FALSE]
        IN  RowLoop(u, idx, i + 1,
                    IF skip
                    THEN [acc EXCEPT !.sum = sum]
                    ELSE [rows |-> Append(acc.rows, rowData),
                          rowYs |-> Append(acc.rowYs, realY),
                          sum |-> sum])

BuildRows(u, idx) ==
    RowLoop(u, idx, 1, [rows |-> <<>>, rowYs |-> <<>>, sum |-> 0])

\* line 443
availableLines(u) ==
    Cardinality({j \in 1..Len(u.series) : u.series[j].showInTooltip}) - 1

\* findInRange of utils/common (imported at line 149), as line 512 calls it
\* (without sticking to the ranges): the entries are the boundaries of
\* stacked bands; the 0-based index of the first entry, scanning upwards,
\* such that y lies in the band from it (included) to the next entry
\* (excluded), NullV if no band holds y
findInRange(ys, y) ==
    LET bands == {j \in 0..(Len(ys) - 2) :
                     /\ At(ys, j).t = "num" /\ At(ys, j + 1).t = "num"
                     /\ At(ys, j).v <= y /\ y < At(ys, j + 1).v}
    IN  IF bands = {} THEN NullV
        ELSE Num(CHOOSE j \in bands : \A k \in bands : j <= k)

\* lines 509-521: the 0-based index to flag, NullV for none; with tracking
\* neither Area nor Sticky it stays i - 1, the index of the last series
ActiveIndex(u, built, cursorValue) ==
    IF opts.tracking = "area" THEN findInRange(built.rowYs, cursorValue)
    ELSE IF opts.tracking = "sticky" THEN findSticky(built.rowYs, cursorValue)
    ELSE Num(Len(u.series) - 1)

\* setCursor with the missing-data guard of lines 430-438 lost: every
\* update goes on to the row set and is shown or hidden by it
setCursor_NoGuard(s, u, c) ==
    LET s1 == IF ((c.left < 0) \/ (c.top.t = "num" /\ c.top.v < 0)) /\ ~s.pinned
              THEN hide(s) ELSE s
    IN  IF Len(BuildRows(u, c.idx.v).rows) = 0
        THEN onMouseLeave(s1) ELSE onMouseEnter(s1)

\* lines 417-564; c is u.cursor together with the engine's answers for this
\* update: c.dataNull (u.data === null), c.inViewPort (yagr.isChartInViewPort())
\* and c.cursorValue (u.posToVal(top, 'y') rounded to 2 digits)
\* The closure is recorded with the idx of the update that created it.
setCursor(s, u, c) ==
    LET s1 == IF ((c.left < 0) \/ (c.top.t = "num" /\ c.top.v < 0)) /\ ~s.pinned
              THEN hide(s) ELSE s
    IN
    IF c.dataNull \/ c.idx.t = "null" \/ c.idx.t = "undefined"
          \/ c.top.t = "undefined" \/ ~c.inViewPort
    THEN s1
    ELSE
      LET built == BuildRows(u, c.idx.v) IN
      IF Len(built.rows) = 0 THEN onMouseLeave(s1)
      ELSE
        LET s2 == onMouseEnter(s1)
            activeIndex == IF opts.highlightLines
                           THEN ActiveIndex(u, built, c.cursorValue)
                           ELSE NullV
        IN
        IF activeIndex # NullV /\ activeIndex.v >= Len(built.rows)
        THEN [s2 EXCEPT !.thrown = "TypeError"]
        ELSE
          LET rows == IF activeIndex = NullV THEN built.rows
                      ELSE [built.rows EXCEPT ![activeIndex.v + 1].active = TRUE]
              s3 == [s2 EXCEPT !.renderTooltipCloses =
                        [kind |-> "closure",
                         rows |-> rows,
                         lines |-> availableLines(u),
                         x |-> At(At(u.data, 0), c.idx.v),
                         idx |-> c.idx.v,
                         sum |-> IF opts.total
                                 THEN defaultTooltipValueFormatter(Num(built.sum))
                                 ELSE Undefined]]
          IN  IF s3.pinned THEN s3 ELSE RunRender(s3)

-----------------------------------------------------------------------------
(* Inputs *)

\* the reserved first series (the x-axis) and its data, distinct per index
XSerie == [name |-> "x", show |-> TRUE, showInTooltip |-> TRUE, c |-> <<>>]
XData == [j \in 1..DataLen |-> Num(10 * j)]

SerieName(i) == IF i = 1 THEN "s1" ELSE IF i = 2 THEN "s2" ELSE "s3"

\* all charts of n series after the first, each with its <<show,
\* showInTooltip>> flags from Flags and its data array from Arrays, and no
\* display-source arrays
Charts(n, Flags, Arrays) ==
    { [series |-> <<XSerie>> \o
                  [i \in 1..n |-> [name |-> SerieName(i), show |-> f[i][1],
                                   showInTooltip |-> f[i][2], c |-> <<>>]],
       data |-> <<XData>> \o d]
      : f \in [1..n -> Flags], d \in [1..n -> Arrays] }

ConstArray(v) == [j \in 1..DataLen |-> v]

\* the charts the interaction model is driven with: one series of numbers,
\* shown (a row is built) or hidden (the row set is empty)
SpecCharts ==
    Charts(1, {<<TRUE, TRUE>>, <<FALSE, TRUE>>}, {ConstArray(Num(5))})

\* the chart of an update that carries no usable data; setCursor returns
\* before it reads the series or the data
NoDataChart == [series |-> <<XSerie>>, data |-> <<>>]

\* u.cursor and the engine's answers for one cursor update, with cursor
\* values from Ys; the position is inside the plot, off the plot (the engine
\* parks the cursor at -10, -10) or without a top coordinate
CursorsAt(Ys) ==
    { [left |-> p[1], top |-> p[2], idx |-> i, dataNull |-> dn,
       inViewPort |-> vp, cursorValue |-> y]
      : p \in {<<1, Num(1)>>, <<-10, Num(-10)>>, <<1, Undefined>>},
        i \in {Num(j) : j \in 0..(DataLen - 1)} \cup {NullV, Undefined},
        dn \in BOOLEAN,
        vp \in BOOLEAN,
        y \in Ys }

\* the number of reasons for which the update carries no usable data
Defects(c) ==
    (IF c.dataNull THEN 1 ELSE 0) + (IF c.idx.t # "num" THEN 1 ELSE 0)
        + (IF c.top.t = "undefined" THEN 1 ELSE 0)
        + (IF c.inViewPort THEN 0 ELSE 1)

\* the cursor updates the interaction model is driven with: complete ones
\* and those with one thing missing (their index, which is never read, is
\* the first one unless it is the index that is missing)
Cursors ==
    {c \in CursorsAt({6}) :
        \/ Defects(c) = 0
        \/ Defects(c) = 1 /\ c.idx \in {Num(0), NullV, Undefined}}

\* lines 430-438: the update carries what the row builder needs
Valid(c) ==
    ~(c.dataNull \/ c.idx.t = "null" \/ c.idx.t = "undefined"
        \/ c.top.t = "undefined" \/ ~c.inViewPort)

\* an entry of a setData payload that is an array, and the payloads: up to
\* two entries, each an array or null
ArrayV == [t |-> "array", v |-> 0]
Payloads ==
    UNION { [1..n -> {ArrayV, NullV}] : n \in 0..2 }

\* where a mousedown or mousemove on the document can land
Targets ==
    {"outside", "nonElement"}
        \cup (IF attached /\ display = "block" THEN {"tooltip", "item"} ELSE {})

\* lines 236-249: the default options; renderIsDefault says that opts.render
\* is renderTooltip, onStateChange that a notification callback is given,
\* callback what that callback does (it only observes, unless said
\* otherwise) and cursor is yagr.config.cursor
DefaultOptions ==
    [tracking |-> "sticky", highlightLines |-> TRUE, total |-> TRUE,
     pinable |-> TRUE, hideNoData |-> FALSE, renderIsDefault |-> TRUE,
     onStateChange |-> TRUE, callback |-> "observe",
     cursor |-> [snapToValues |-> "undefined"]]

\* the option records the interaction model is checked for: the defaults
\* with a callback that only observes; pinning disabled, with a callback
\* that shows the tooltip when it is notified of 'mount'; a custom render
\* function; no callback; and a callback that unpins the tooltip when it is
\* notified of 'pin'
Options ==
    {DefaultOptions,
     [DefaultOptions EXCEPT !.pinable = FALSE, !.callback = "showOnMount"],
     [DefaultOptions EXCEPT !.renderIsDefault = FALSE],
     [DefaultOptions EXCEPT !.onStateChange = FALSE],
     [DefaultOptions EXCEPT !.callback = "unpinOnPin"]}

\* the record kept in `last`
Op(name) ==
    [op |-> name, clientX |-> -1, pinState |-> FALSE, target |-> "none",
     oob |-> FALSE, valid |-> FALSE, rows |-> -1]

OpCursor(u, c) ==
    [Op("setCursor") EXCEPT
        !.oob = (c.left < 0) \/ (c.top.t = "num" /\ c.top.v < 0),
        !.valid = Valid(c),
        !.rows = IF Valid(c) THEN Len(BuildRows(u, c.idx.v).rows) ELSE -1]

\* the value of `stale` after the cursor update c that leaves the world s
Stale(s, c) ==
    IF Valid(c)
    THEN /\ s.renderTooltipCloses # NoRender
         /\ s.renderTooltipCloses.idx # c.idx.v
    ELSE stale

-----------------------------------------------------------------------------
(* The state after construction (lines 256-285): the overlay is appended   *)
(* to the body and 'init' and 'mount' have been emitted.                   *)

Constructed ==
    [pinned |-> FALSE, visible |-> FALSE, mounted |-> TRUE,
     clickStartedX |-> NullV, display |-> "none", attached |-> TRUE,
     pinnedClass |-> FALSE, innerHTML |-> EmptyHTML, over |-> FALSE,
     overListeners |-> {}, docListeners |-> {}, holders |-> 0,
     renderTooltipCloses |-> NoRender, focus |-> "none", emitted |-> <<>>,
     thrown |-> "none"]

StartedWith(OptionSet, Args) ==
    /\ opts \in OptionSet
    /\ LET s == emit(emit(Constructed, "init"), "mount") IN
        /\ pinned = s.pinned
        /\ visible = s.visible
        /\ mounted = s.mounted
        /\ clickStartedX = s.clickStartedX
        /\ display = s.display
        /\ attached = s.attached
        /\ pinnedClass = s.pinnedClass
        /\ innerHTML = s.innerHTML
        /\ over = s.over
        /\ overListeners = s.overListeners
        /\ docListeners = s.docListeners
        /\ holders = s.holders
        /\ renderTooltipCloses = s.renderTooltipCloses
        /\ focus = s.focus
        /\ emitted = s.emitted
        /\ thrown = s.thrown
        /\ last = Op("construct")
        /\ pre = [pinned |-> s.pinned, visible |-> s.visible]
        /\ stale = FALSE
        /\ arg \in Args

Started(OptionSet) == StartedWith(OptionSet, {NoArg})

Init == Started(Options)

-----------------------------------------------------------------------------
(* Actions: one per hook, listener or public callback *)

\* the engine's init hook; it runs once, before any other hook
HookInit ==
    /\ ~over
    /\ Commit(init(Cur), Op("init"))

\* mousedown on the interaction layer; the event bubbles to the document,
\* where detectClickOutside sees a target inside `over`
PointerDown ==
    /\ "mousedown" \in overListeners
    /\ \E x \in 0..MaxX :
        LET s1 == onMouseDown(Cur, x)
            s2 == IF "mousedown" \in docListeners
                  THEN detectClickOutside(s1, "over") ELSE s1
        IN  Commit(s2, Op("pointerDown"))

PointerUp ==
    /\ "mouseup" \in overListeners
    /\ \E x \in 0..MaxX :
        /\ onMouseUp(Cur, x).holders <= MaxHolders
        /\ Commit(onMouseUp(Cur, x),
                  [Op("pointerUp") EXCEPT !.clientX = x])

PointerEnter ==
    /\ "mouseenter" \in overListeners
    /\ Commit(onMouseEnter(Cur), Op("pointerEnter"))

PointerLeave ==
    /\ "mouseleave" \in overListeners
    /\ Commit(onMouseLeave(Cur), Op("pointerLeave"))

\* mousedown anywhere in the document but the interaction layer
DocMouseDown ==
    /\ "mousedown" \in docListeners
    /\ \E target \in Targets :
        Commit(detectClickOutside(Cur, target),
               [Op("docMouseDown") EXCEPT !.target = target])

DocMouseMove ==
    /\ "mousemove" \in docListeners
    /\ \E target \in Targets, k \in 1..2 :
        Commit(checkFocus(Cur, target, k),
               Op("docMouseMove"))

\* the functions handed out with every notification (lines 273-275), called
\* between two handlers; they exist only for an instance with onStateChange
\* and from the construction on, before the init hook too
PublicShow ==
    /\ opts.onStateChange
    /\ Commit(show(Cur), Op("show"))

PublicHide ==
    /\ opts.onStateChange
    /\ Commit(hide(Cur), Op("hide"))

PublicPin ==
    /\ opts.onStateChange
    /\ \E pinState \in BOOLEAN :
        /\ pinState => holders < MaxHolders
        /\ Commit(pin(Cur, pinState),
                  [Op("pin") EXCEPT !.pinState = pinState])

\* the engine's setCursor hook, for the charts of ChartSet
SetCursorOn(ChartSet) ==
    /\ over
    /\ \E c \in Cursors :
        \E u \in (IF ~Valid(c) THEN {NoDataChart} ELSE ChartSet) :
            /\ CommitArg(setCursor(Cur, u, c), OpCursor(u, c), arg)
            /\ stale' = Stale(setCursor(Cur, u, c), c)

SetCursor == SetCursorOn(SpecCharts)

\* the engine's setData hook
SetData ==
    /\ over
    /\ \E data \in Payloads :
        Commit(setData(Cur, data),
               [Op("setData") EXCEPT
                   !.valid = \A i \in 1..Len(data) : data[i].t = "array"])

Destroy ==
    /\ over /\ mounted
    /\ Commit(destroy(Cur), Op("destroy"))

Next ==
    \/ HookInit
    \/ PointerDown
    \/ PointerUp
    \/ PointerEnter
    \/ PointerLeave
    \/ DocMouseDown
    \/ DocMouseMove
    \/ PublicShow
    \/ PublicHide
    \/ PublicPin
    \/ SetCursor
    \/ SetData
    \/ Destroy

Spec == Init /\ [][Next]_vars

-----------------------------------------------------------------------------
(* The interaction model with hideNoData on, driven with charts whose one  *)
(* series is shown or hidden, opted in or out of the tooltip, and holds    *)
(* numbers or nothing but the gap-marker.                                  *)

GapCharts ==
    Charts(1, BOOLEAN \X BOOLEAN, {ConstArray(Num(5)), ConstArray(NullV)})

GapOptions == {[DefaultOptions EXCEPT !.hideNoData = TRUE]}

InitGaps == Started(GapOptions)

SetCursorGaps == SetCursorOn(GapCharts)

NextGaps ==
    \/ HookInit
    \/ PointerDown
    \/ PointerUp
    \/ PointerEnter
    \/ PointerLeave
    \/ DocMouseDown
    \/ DocMouseMove
    \/ PublicShow
    \/ PublicHide
    \/ PublicPin
    \/ SetCursorGaps
    \/ Destroy

SpecGaps == InitGaps /\ [][NextGaps]_vars

-----------------------------------------------------------------------------
(* The row builder: one cursor update, inside the plot and with usable     *)
(* data, applied to a chart of one to three series.  The chart and the     *)
(* cursor are drawn at the start and kept in `arg`.                        *)

\* a display-source array whose first entry is the gap-marker
GapFirst(v) == [j \in 1..DataLen |-> IF j = 1 THEN NullV ELSE v]

\* what one series can be: shown and listed, shown and opted out of the
\* tooltip, or hidden, over gaps, the number 5, the number 7 or a label; or
\* shown and listed over the number 5 with a display source 9 behind a gap
RowSeries ==
    { [show |-> f[1], showInTooltip |-> f[2], data |-> ConstArray(v), c |-> <<>>]
      : f \in {<<TRUE, TRUE>>, <<TRUE, FALSE>>, <<FALSE, TRUE>>},
        v \in {NullV, Num(5), Num(7), Str("a")} }
    \cup { [show |-> TRUE, showInTooltip |-> TRUE,
            data |-> ConstArray(Num(5)), c |-> GapFirst(Num(9))] }

\* all charts of n series after the first, each one of Kinds
ChartsOf(n, Kinds) ==
    { [series |-> <<XSerie>> \o
                  [i \in 1..n |-> [name |-> SerieName(i), show |-> k[i].show,
                                   showInTooltip |-> k[i].showInTooltip,
                                   c |-> k[i].c]],
       data |-> <<XData>> \o [i \in 1..n |-> k[i].data]]
      : k \in [1..n -> Kinds] }

RowCharts == UNION { ChartsOf(n, RowSeries) : n \in 1..3 }

\* complete cursor updates inside the plot, at y = 6 or y = 9
RowCursors == {c \in CursorsAt({6, 9}) : Valid(c) /\ c.left >= 0 /\ c.top.v >= 0}

\* the defaults, with hideNoData on, with Area tracking, and with tracking
\* disabled (neither Sticky nor Area) while highlightLines is on or off
RowOptions ==
    {DefaultOptions,
     [DefaultOptions EXCEPT !.hideNoData = TRUE],
     [DefaultOptions EXCEPT !.tracking = "area"],
     [DefaultOptions EXCEPT !.tracking = "none"],
     [DefaultOptions EXCEPT !.tracking = "none", !.highlightLines = FALSE]}

InitRows ==
    StartedWith(RowOptions, [u : RowCharts, c : RowCursors])

SetCursorRows ==
    /\ over
    /\ CommitArg(setCursor(Cur, arg.u, arg.c), OpCursor(arg.u, arg.c), arg)
    /\ stale' = Stale(setCursor(Cur, arg.u, arg.c), arg.c)

NextRows ==
    \/ HookInit
    \/ SetCursorRows

SpecRows == InitRows /\ [][NextRows]_vars

-----------------------------------------------------------------------------
(* The value resolver: findValue applied, the way line 460 calls it, to    *)
(* one series and one data index.  The input is drawn at the start and     *)
(* kept in `arg` together with the value returned.                         *)

\* arrays of SnapLen entries, each the gap-marker, 1 or 4
SnapArrays == [1..SnapLen -> {NullV, Num(1), Num(4)}]

\* the plotted array of a series that has a display-source array: the
\* engine has filled its gaps
Fillers == [j \in 1..SnapLen |-> Num(7)]

\* a series without a display source over each array, and a series with
\* each array as its display source over a plotted array of fillers
SnapInputs ==
    { [kind |-> "resolve", idx |-> i, result |-> Undefined, data |-> d[1],
       serie |-> [name |-> "s1", show |-> TRUE, showInTooltip |-> TRUE,
                  c |-> d[2]]]
      : i \in 0..(SnapLen - 1),
        d \in {<<a, <<>> >> : a \in SnapArrays}
                 \cup {<<Fillers, a>> : a \in SnapArrays} }

\* yagr.config.cursor without a snap policy, with Closest named and with
\* snapping switched off
SnapOptions ==
    {DefaultOptions,
     [DefaultOptions EXCEPT !.cursor = [snapToValues |-> "closest"]],
     [DefaultOptions EXCEPT !.cursor = [snapToValues |-> "false"]]}

InitSnap == StartedWith(SnapOptions, SnapInputs)

ResolveValue ==
    /\ arg' = [arg EXCEPT
                 !.kind = "resolved",
                 !.result = findValue(opts.cursor, arg.data, arg.serie,
                                      arg.idx, stripValue)]
    /\ UNCHANGED <<opts, pinned, visible, mounted, clickStartedX, display,
                   attached, pinnedClass, innerHTML, over, overListeners,
                   docListeners, holders, renderTooltipCloses, focus, emitted,
                   thrown, last, pre, stale>>

NextSnap == ResolveValue

SpecSnap == InitSnap /\ [][NextSnap]_vars

-----------------------------------------------------------------------------
(* Properties *)

ActionsOf(seq) == [i \in 1..Len(seq) |-> seq[i].action]
Count(seq, a) == Cardinality({i \in 1..Len(seq) : seq[i].action = a})
Has(seq, a) == \E i \in 1..Len(seq) : seq[i].action = a

\* C1: show() is idempotent.  Every call of show() leaves visible = TRUE and
\* emits one 'show' notification if visible was false before it and nothing
\* if it was true; two consecutive calls emit, in total, one 'show' if
\* visible was false before the first call and none otherwise.
C1_ShowIdempotent ==
    [][ last'.op = "show" =>
          /\ visible'
          /\ ActionsOf(emitted') = (IF visible THEN <<>> ELSE <<"show">>)
          /\ last.op = "show" =>
                Count(emitted, "show") + Count(emitted', "show")
                    = (IF pre.visible THEN 0 ELSE 1) ]_vars

\* a show() that found visible = FALSE has emitted its one notification
C1_Witness ==
    /\ last.op = "show" /\ ~pre.visible /\ visible
    /\ ActionsOf(emitted) = <<"show">>

\* C2: hide() is idempotent.  A call of hide() leaves visible = FALSE and
\* emits exactly one 'hide' notification when visible was true before the
\* call and no 'hide' notification when it was already false.
C2_HideIdempotent ==
    last.op = "hide" =>
        /\ ~visible
        /\ Count(emitted, "hide") = (IF pre.visible THEN 1 ELSE 0)

\* C3: a 'show' notification fires only on the transition of visible from
\* false to true: visible was false right before the emitting operation,
\* the state carried by the notification has visible = TRUE, and no run of
\* hide() emits a notification tagged 'show'.
C3_ShowOnlyOnRisingEdge ==
    \A i \in 1..Len(emitted) :
        emitted[i].action = "show" =>
            /\ (IF i = 1 THEN pre.visible ELSE emitted[i - 1].visible) = FALSE
            /\ emitted[i].visible
            /\ last.op # "hide"

\* C4: in every reachable state pinned = TRUE implies mounted = TRUE.
C4_PinnedImpliesMounted == pinned => mounted

\* C5: 'destroy' is the final notification and Destroyed is terminal: a
\* handler that runs after destroy emits nothing and leaves pinned and
\* visible as they were (mounted stays false).
C5_DestroyedIsTerminal ==
    (~mounted /\ last.op # "destroy") =>
        /\ emitted = <<>>
        /\ pinned = pre.pinned
        /\ visible = pre.visible

\* C6: in the state reached by destroy none of the listeners of the
\* component is attached, neither the four on the interaction layer nor the
\* two on the document.
C6_DestroyDetachesAll ==
    last.op = "destroy" => (overListeners = {} /\ docListeners = {})

\* C7: click versus drag.  A pointerUp with pinning enabled toggles pinned
\* if its coordinate equals the one recorded by the preceding pointerDown,
\* for every coordinate including 0; otherwise (the coordinates differ or
\* pinning is disabled) pinned is unchanged and no pin, unpin, show or
\* render notification is emitted.
C7_ClickVersusDrag ==
    last.op = "pointerUp" =>
        IF opts.pinable /\ clickStartedX = Num(last.clientX)
        THEN pinned = ~pre.pinned
        ELSE /\ pinned = pre.pinned
             /\ \A a \in {"pin", "unpin", "show", "render"} : ~Has(emitted, a)

\* C8: entering pinned by a click forces a render flush.  When a pointerUp
\* turns pinned from false to true and a deferred render is pending, then
\* after the handler pinned and visible are true, a holder layer exists,
\* the overlay shows the pending rows drawn with pinned = TRUE, and the
\* notifications are 'pin', then 'show' (only if visible was false), then
\* one 'render', all carrying pinned = TRUE.
C8_PinFlushesRender ==
    (last.op = "pointerUp" /\ ~pre.pinned /\ pinned
        /\ renderTooltipCloses # NoRender) =>
        /\ visible
        /\ holders >= 1
        /\ innerHTML.kind = "rendered"
        /\ innerHTML.rows = renderTooltipCloses.rows
        /\ innerHTML.x = renderTooltipCloses.x
        /\ innerHTML.sum = renderTooltipCloses.sum
        /\ innerHTML.pinned
        /\ opts.onStateChange =>
              /\ ActionsOf(emitted) = (IF pre.visible THEN <<"pin", "render">>
                                       ELSE <<"pin", "show", "render">>)
              /\ \A i \in 1..Len(emitted) : emitted[i].pinned

\* a click has pinned a hidden tooltip with a pending render
C8_Witness ==
    /\ last.op = "pointerUp" /\ ~pre.pinned /\ pinned /\ ~pre.visible
    /\ renderTooltipCloses # NoRender
    /\ ActionsOf(emitted) = <<"pin", "show", "render">>

\* C9: pin/unpin round trip.  From any unpinned mounted state, a pin
\* followed by an unpin (second click, outside click or the public pin
\* callback) ends with pinned = FALSE, no holder layer and no listener on
\* the document, and the next cursor update with valid data and a non-empty
\* row set emits a 'render' notification.
C9_PinUnpinRoundTrip ==
    [][ /\ ( /\ mounted /\ pinned /\ ~pre.pinned
             /\ last.op \in {"pointerUp", "pin"}
             /\ ~pinned'
             /\ last'.op \in {"pointerUp", "docMouseDown", "pin"} )
           => (holders' = 0 /\ docListeners' = {})
        /\ ( /\ mounted /\ ~pinned /\ pre.pinned
             /\ last.op \in {"pointerUp", "docMouseDown", "pin"}
             /\ last'.op = "setCursor" /\ last'.valid /\ last'.rows > 0
             /\ opts.onStateChange )
           => Has(emitted', "render") ]_vars

\* C10: a pinned tooltip is frozen against pointer movement.  While pinned,
\* no cursor update and no pointerLeave emits 'render' or 'hide', changes
\* the overlay content or sets visible to false; while pinned the content
\* changes only through the flush of a pin toggle by pointerUp.
C10_PinnedIsFrozen ==
    [][ /\ (pinned /\ last'.op \in {"setCursor", "pointerLeave"}) =>
              /\ ~Has(emitted', "render")
              /\ ~Has(emitted', "hide")
              /\ innerHTML' = innerHTML
              /\ visible => visible'
        /\ (pinned /\ innerHTML' # innerHTML) =>
              (last'.op = "pointerUp" /\ ~pinned') ]_vars

\* a cursor update built rows for another index while pinned and the
\* overlay still shows the rows drawn before it
C10_Witness ==
    /\ last.op = "setCursor" /\ last.valid /\ last.rows > 0
    /\ pre.pinned /\ pinned
    /\ innerHTML.kind = "rendered"
    /\ innerHTML.x # renderTooltipCloses.x

\* C11: only the most recent cursor position is ever rendered.  Every
\* executed render, the one flushed by a pin toggle included, shows the rows
\* built for the data index of the most recently processed cursor update,
\* never rows of an earlier update.
C11_OnlyLatestRendered == Has(emitted, "render") => ~stale

\* C12 as stated: a cursor update with valid data and index for which no
\* row is emitted ends with visible = FALSE and emits no 'render'
\* notification, from every prior state.
C12_EmptyRowsHide ==
    (last.op = "setCursor" /\ last.valid /\ last.rows = 0) =>
        (~visible /\ ~Has(emitted, "render"))

\* C12, amended: a cursor update with valid data and index for which no row
\* is emitted emits no 'render' notification and ends with visible = FALSE
\* if the tooltip is not pinned; while pinned it leaves visible as it was.
C12_EmptyRowsHideUnlessPinned ==
    (last.op = "setCursor" /\ last.valid /\ last.rows = 0) =>
        /\ ~Has(emitted, "render")
        /\ pinned = pre.pinned
        /\ IF pre.pinned THEN visible = pre.visible ELSE ~visible

\* a visible, unpinned tooltip has been hidden by a cursor update inside the
\* plot that built no row
C12_Witness ==
    /\ last.op = "setCursor" /\ last.valid /\ last.rows = 0 /\ ~last.oob
    /\ pre.visible /\ ~pre.pinned /\ ~visible
    /\ Has(emitted, "hide")

\* C13 as stated: a cursor update with missing data (null data, null or
\* undefined index, chart outside the viewport) leaves pinned, visible,
\* clickStartedX, the overlay content and the pending render unchanged and
\* emits no notification, for every cursor position, negative left/top
\* included, and every prior state.
C13_MissingDataIsNoOp ==
    [][ (last'.op = "setCursor" /\ ~last'.valid) =>
          /\ pinned' = pinned
          /\ visible' = visible
          /\ clickStartedX' = clickStartedX
          /\ innerHTML' = innerHTML
          /\ renderTooltipCloses' = renderTooltipCloses
          /\ emitted' = <<>> ]_vars

\* C13, amended: a cursor update with missing data whose position is inside
\* the plot bounds (left >= 0 and top >= 0), or that arrives while pinned,
\* leaves pinned, visible, clickStartedX, the overlay content and the
\* pending render unchanged and emits no notification.
C13_MissingDataInsidePlotIsNoOp ==
    [][ (last'.op = "setCursor" /\ ~last'.valid /\ (~last'.oob \/ pinned)) =>
          /\ pinned' = pinned
          /\ visible' = visible
          /\ clickStartedX' = clickStartedX
          /\ display' = display
          /\ innerHTML' = innerHTML
          /\ renderTooltipCloses' = renderTooltipCloses
          /\ emitted' = <<>> ]_vars

\* a cursor update with missing data, inside the plot, has left a visible,
\* unpinned tooltip and its content as they were
C13_Witness ==
    /\ last.op = "setCursor" /\ ~last.valid /\ ~last.oob
    /\ ~pre.pinned /\ pre.visible /\ visible
    /\ innerHTML.kind = "rendered"
    /\ emitted = <<>>

\* C14: fail-fast on bad data.  setData with a payload in which some entry
\* is not an array raises an error without emitting a notification,
\* rendering or changing the Tooltip State; setData with a payload whose
\* entries are all arrays raises nothing.
C14_SetDataFailsFast ==
    [][ last'.op = "setData" =>
          /\ thrown' = (IF last'.valid THEN "none" ELSE "Error")
          /\ emitted' = <<>>
          /\ innerHTML' = innerHTML
          /\ pinned' = pinned
          /\ visible' = visible
          /\ mounted' = mounted
          /\ clickStartedX' = clickStartedX ]_vars

\* setData has raised its error for a payload with an entry that is not an
\* array, while the tooltip was visible
C14_Witness ==
    /\ last.op = "setData" /\ ~last.valid
    /\ thrown = "Error"
    /\ pre.visible /\ visible

\* the value a series resolves to at a data index, and whether the series
\* is excluded from the tooltip: hidden, opted out, or without a number
\* while hideNoData is on
Resolved(u, i, idx) ==
    findValue(opts.cursor, At(u.data, i), At(u.series, i), idx, stripValue)
Excluded(u, i, idx) ==
    \/ ~At(u.series, i).show
    \/ ~At(u.series, i).showInTooltip
    \/ (opts.hideNoData /\ Resolved(u, i, idx).t # "num")

\* the sum of the resolved numbers of the non-excluded series i..last
RECURSIVE SumFrom(_, _, _)
SumFrom(u, i, idx) ==
    IF i >= Len(u.series) THEN 0
    ELSE (IF ~Excluded(u, i, idx) /\ Resolved(u, i, idx).t = "num"
          THEN Resolved(u, i, idx).v ELSE 0)
         + SumFrom(u, i + 1, idx)

\* C15: sum exclusion.  With show-total enabled, the sum handed to the
\* render function for a cursor update equals the sum of the resolved
\* numeric values of exactly the non-excluded series (visible, not opted out
\* of the tooltip, not dropped by hideNoData); categorical values, gap
\* values and excluded series contribute nothing.
C15_SumExclusion ==
    (last.op = "setCursor" /\ last.rows > 0 /\ thrown = "none" /\ opts.total) =>
        renderTooltipCloses.sum
            = defaultTooltipValueFormatter(Num(SumFrom(arg.u, 1, arg.c.idx.v)))

\* the array findValue reads for the input kept in `arg` (line 189): the
\* display source of the series when it has one, else the plotted array
SnapSource == IF arg.serie.c # <<>> THEN arg.serie.c ELSE arg.data

\* index j lies outside that array or holds the gap-marker
SnapIsGap(j) ==
    j < 0 \/ j >= Len(SnapSource) \/ At(SnapSource, j) = stripValue

\* the indices d steps away from the index asked, on either side, that hold
\* a value
SnapRing(d) == {j \in {arg.idx - d, arg.idx + d} : ~SnapIsGap(j)}

\* C16: snap correctness.  With snap policy Closest (the default when none
\* is configured), resolving a series at an index that holds the gap-marker
\* returns the value at the nearest index, searching both directions over
\* the display-source array, whose value is not the gap-marker (for
\* [1, null, null, 4] index 1 gives 1 and index 2 gives 4); it returns the
\* gap-marker when the series has no non-gap value and the value at the
\* index unchanged when that is not the gap-marker; the arrays are as they
\* were.  The second conjunct is what lines 188-203 do: the value of the
\* display source at the index, or at the index findDataIdx answers for
\* that array under Closest.  The third is what that answer has to be,
\* found by walking outward from the index one step at a time: it is the
\* part that rests on findDataIdx of utils/common.
C16_SnapCorrect ==
    [][ (arg'.kind = "resolved"
           /\ opts.cursor.snapToValues \in {"undefined", "closest"}) =>
          /\ arg'.data = arg.data /\ arg'.serie = arg.serie
          /\ arg'.result
                = IF SnapIsGap(arg.idx)
                  THEN At(SnapSource,
                          findDataIdx(SnapSource, arg.serie, arg.idx,
                                      "closest", stripValue))
                  ELSE At(SnapSource, arg.idx)
          /\ SnapIsGap(arg.idx) =>
                IF \A d \in 1..SnapLen : SnapRing(d) = {}
                THEN arg'.result = stripValue
                ELSE \E d \in 1..SnapLen :
                        /\ \A e \in 1..(d - 1) : SnapRing(e) = {}
                        /\ \E j \in SnapRing(d) :
                              arg'.result = At(SnapSource, j)
          /\ SnapSource = <<Num(1), NullV, NullV, Num(4)>> =>
                /\ arg.idx = 1 => arg'.result = Num(1)
                /\ arg.idx = 2 => arg'.result = Num(4) ]_vars

\* with no snap policy configured, a gap of a display-source array has been
\* resolved to the 4 to its right, nearer than the 1 at the start of the
\* array
C16_Witness ==
    /\ arg.kind = "resolved"
    /\ opts.cursor.snapToValues = "undefined"
    /\ arg.serie.c # <<>>
    /\ At(arg.serie.c, arg.idx) = stripValue
    /\ At(arg.serie.c, 0) = Num(1)
    /\ arg.result = Num(4)

\* the rows handed to the render function, those flagged active, and the
\* distance of the y recorded on row k to the cursor's y value
PendingRows == renderTooltipCloses.rows
ActiveRows == {k \in 1..Len(PendingRows) : PendingRows[k].active}
RowGap(k) ==
    IF PendingRows[k].y.v >= arg.c.cursorValue
    THEN PendingRows[k].y.v - arg.c.cursorValue
    ELSE arg.c.cursorValue - PendingRows[k].y.v

\* C17: Sticky selection.  Under Sticky tracking with highlighting on, a
\* cursor update with a non-empty row set (some row of which records a
\* number as its y) flags exactly one row active: the row whose recorded y
\* is numerically closest to the cursor's y value, the lowest index winning
\* ties; no other row is flagged.
C17_StickyByRowY ==
    ( /\ last.op = "setCursor" /\ last.rows > 0 /\ thrown = "none"
      /\ opts.tracking = "sticky" /\ opts.highlightLines
      /\ \E k \in 1..Len(PendingRows) : PendingRows[k].y.t = "num" ) =>
        \E k \in 1..Len(PendingRows) :
            /\ ActiveRows = {k}
            /\ PendingRows[k].y.t = "num"
            /\ \A j \in 1..Len(PendingRows) :
                  PendingRows[j].y.t = "num" =>
                      \/ RowGap(k) < RowGap(j)
                      \/ (RowGap(k) = RowGap(j) /\ k <= j)

\* C18: in every reachable state before destroy the focus
\* listener and the outside-click listener are attached to the document if
\* and only if pinned = TRUE, for every configuration (default or custom
\* render function) and every way of pinning or unpinning.
C18_ListenersIffPinned ==
    mounted =>
        docListeners = (IF pinned THEN {"mousemove", "mousedown"} ELSE {})

\* C19: an out-of-bounds cursor hides.  After a cursor update whose position
\* is outside the plot bounds (left < 0 or top < 0) while pinned = FALSE the
\* tooltip is hidden: visible = FALSE at the end of the handler and the
\* update produces no 'render' notification, whatever data index it carries.
\* (The notification tagged 'show' that hide() itself emits is the subject
\* of C3 and is not counted here.)
C19_OutOfBoundsHides ==
    (last.op = "setCursor" /\ last.oob /\ ~pre.pinned) =>
        (~visible /\ ~Has(emitted, "render"))

\* C20: disabled tracking selects nothing.  When the tracking policy is
\* neither Sticky nor Area, a cursor update with a non-empty row set raises
\* no error, shows and renders as usual and flags no row active, with the
\* highlight option on or off and for every number of series and rows.
C20_NoTrackingSelectsNothing ==
    ( /\ last.op = "setCursor" /\ last.rows > 0
      /\ opts.tracking \notin {"sticky", "area"} ) =>
        /\ thrown = "none"
        /\ visible
        /\ Has(emitted, "render")
        /\ innerHTML.kind = "rendered"
        /\ \A k \in 1..Len(innerHTML.rows) : ~innerHTML.rows[k].active

\* a series gets a row: it is shown, it does not opt out of the tooltip and,
\* when hideNoData is set, the value it resolves to is not the gap-marker
Listed(u, i, idx) ==
    /\ At(u.series, i).show
    /\ At(u.series, i).showInTooltip
    /\ ~(opts.hideNoData /\ Resolved(u, i, idx) = stripValue)

\* the names of the listed series i..last, in declaration order
RECURSIVE ListedFrom(_, _, _)
ListedFrom(u, i, idx) ==
    IF i >= Len(u.series) THEN <<>>
    ELSE (IF Listed(u, i, idx) THEN <<At(u.series, i).name>> ELSE <<>>)
         \o ListedFrom(u, i + 1, idx)

\* C21: row inclusion.  A cursor update emits one row, in series declaration
\* order (no sort comparator is configured), for exactly those series after
\* the first that are visible, do not opt out of the tooltip and, when
\* hideNoData is set, whose resolved value is not the gap-marker; a
\* categorical string value is a display value, not the gap-marker.  No
\* other series gets a row and the first (x-axis) series never does.
C21_RowInclusion ==
    (last.op = "setCursor" /\ thrown = "none") =>
        /\ last.rows = Len(ListedFrom(arg.u, 1, arg.c.idx.v))
        /\ last.rows > 0 =>
              [k \in 1..Len(PendingRows) |-> PendingRows[k].name]
                  = ListedFrom(arg.u, 1, arg.c.idx.v)

\* C22: in every reachable state the overlay's displayed/hidden status
\* agrees with the Tooltip State: its display is 'block' if and only if
\* visible = TRUE and 'none' if and only if visible = FALSE, after any
\* sequence of show, hide, pin, pointer events and cursor updates.
C22_DisplayAgreesWithVisible ==
    /\ display = "block" <=> visible
    /\ display = "none" <=> ~visible

\* a cursor update outside the plot has hidden a visible tooltip and the
\* overlay's display is 'none'
C22_Witness ==
    /\ last.op = "setCursor" /\ last.oob
    /\ pre.visible /\ ~visible
    /\ display = "none"

\* C23: after any sequence of clicks, outside clicks and public pin(true)
\* and pin(false) calls, the same value twice in a row included, the
\* interaction layer contains exactly one marker holder layer when
\* pinned = TRUE and none when pinned = FALSE; a holder layer is never left
\* behind after un-pinning.
C23_OneHolderIffPinned == holders = (IF pinned THEN 1 ELSE 0)

====
